---- MODULE Spec2Model ----
(***************************************************************************)
(* Model of src/app.py: the product/dimension resolver of the price-query  *)
(* service, its /query handler and its /webhook handler.                   *)
(*                                                                         *)
(* A Python str is a sequence of one-character strings, so that split,     *)
(* strip, lower, int(), str(int) and substring search are computed rather  *)
(* than assumed.  Python's None is the value None below.                   *)
(***************************************************************************)
EXTENDS Integers, Sequences, FiniteSets, TLC

VARIABLES products_df, VERIFY_TOKEN, req, resp

vars == <<products_df, VERIFY_TOKEN, req, resp>>

(* Python None: a one-element sequence whose element is no character. *)
None == <<"<None>">>

\* ------------------------------------------------------------------ bounds
MaxDimLen == 4
MaxRows == 2
MaxEvents == 2
MaxEntries == 2

\* ------------------------------------------------------- Python str helpers
Whitespace == {" ", "\t", "\n"}
Digits == <<"0", "1", "2", "3", "4", "5", "6", "7", "8", "9">>
UpperLetters == <<"A","B","C","D","E","F","G","H","I","J","K","L","M",
                  "N","O","P","Q","R","S","T","U","V","W","X","Y","Z">>
LowerLetters == <<"a","b","c","d","e","f","g","h","i","j","k","l","m",
                  "n","o","p","q","r","s","t","u","v","w","x","y","z">>

IsDigit(c) == \E i \in DOMAIN Digits : Digits[i] = c
DigitVal(c) == (CHOOSE i \in DOMAIN Digits : Digits[i] = c) - 1

LowerChar(c) ==
    IF \E i \in DOMAIN UpperLetters : UpperLetters[i] = c
    THEN LowerLetters[CHOOSE i \in DOMAIN UpperLetters : UpperLetters[i] = c]
    ELSE c

(* str.lower() *)
Lower(s) == [i \in DOMAIN s |-> LowerChar(s[i])]

RECURSIVE LStrip(_)
LStrip(s) == IF s # <<>> /\ Head(s) \in Whitespace THEN LStrip(Tail(s)) ELSE s

RECURSIVE RStrip(_)
RStrip(s) ==
    IF s # <<>> /\ s[Len(s)] \in Whitespace
    THEN RStrip(SubSeq(s, 1, Len(s) - 1))
    ELSE s

(* str.strip() *)
Strip(s) == RStrip(LStrip(s))

(* sub in s *)
Contains(s, sub) ==
    \E i \in 0..(Len(s) - Len(sub)) : SubSeq(s, i + 1, i + Len(sub)) = sub

(* str.split(sep) for a one-character separator: the list of the parts,   *)
(* empty parts included.                                                   *)
RECURSIVE SplitAcc(_, _, _)
SplitAcc(s, sep, cur) ==
    IF s = <<>> THEN <<cur>>
    ELSE IF Head(s) = sep THEN <<cur>> \o SplitAcc(Tail(s), sep, <<>>)
    ELSE SplitAcc(Tail(s), sep, Append(cur, Head(s)))

Split(s, sep) == SplitAcc(s, sep, <<>>)

(* str.split() without arguments: the maximal runs of non-whitespace. *)
RECURSIVE SplitWsAcc(_, _)
SplitWsAcc(s, cur) ==
    IF s = <<>> THEN (IF cur = <<>> THEN <<>> ELSE <<cur>>)
    ELSE IF Head(s) \in Whitespace
         THEN (IF cur = <<>> THEN <<>> ELSE <<cur>>) \o SplitWsAcc(Tail(s), <<>>)
    ELSE SplitWsAcc(Tail(s), Append(cur, Head(s)))

SplitWs(s) == SplitWsAcc(s, <<>>)

AllDigits(s) == s # <<>> /\ \A i \in DOMAIN s : IsDigit(s[i])

(* int(s) succeeds: optional surrounding whitespace, an optional sign, then *)
(* one or more decimal digits (leading zeros allowed).                      *)
IntParses(s) ==
    LET t == Strip(s) IN
    /\ t # <<>>
    /\ IF Head(t) \in {"+", "-"} THEN AllDigits(Tail(t)) ELSE AllDigits(t)

RECURSIVE DigitsVal(_, _)
DigitsVal(s, acc) ==
    IF s = <<>> THEN acc ELSE DigitsVal(Tail(s), 10 * acc + DigitVal(Head(s)))

(* the value of int(s), for s with IntParses(s) *)
IntOf(s) ==
    LET t == Strip(s) IN
    IF Head(t) = "-" THEN 0 - DigitsVal(Tail(t), 0)
    ELSE IF Head(t) = "+" THEN DigitsVal(Tail(t), 0)
    ELSE DigitsVal(t, 0)

RECURSIVE NatToStr(_)
NatToStr(n) ==
    IF n < 10 THEN <<Digits[n + 1]>>
    ELSE Append(NatToStr(n \div 10), Digits[(n % 10) + 1])

(* str(n), as the f-string formats an int *)
IntToStr(n) == IF n < 0 THEN <<"-">> \o NatToStr(0 - n) ELSE NatToStr(n)

Min(a, b) == IF a <= b THEN a ELSE b
Max(a, b) == IF a >= b THEN a ELSE b

\* ------------------------------------------------------ normalize_dimension
(* normalize_dimension without the min/max ordering *)
MutNormalizeNoSort(dimension) ==
    IF dimension = None \/ dimension = <<>> THEN None
    ELSE LET parts == Split(dimension, "x") IN
         IF Len(parts) = 2 /\ IntParses(Strip(parts[1])) /\ IntParses(Strip(parts[2]))
         THEN IntToStr(IntOf(Strip(parts[1]))) \o <<"x">> \o IntToStr(IntOf(Strip(parts[2])))
         ELSE None

normalize_dimension(dimension) ==
    IF dimension = None \/ dimension = <<>> THEN None
    ELSE LET parts == Split(dimension, "x") IN
         IF Len(parts) = 2
         THEN IF IntParses(Strip(parts[1])) /\ IntParses(Strip(parts[2]))
              THEN LET width == IntOf(Strip(parts[1]))
                       height == IntOf(Strip(parts[2]))
                   IN IntToStr(Min(width, height)) \o <<"x">> \o IntToStr(Max(width, height))
              ELSE None
         ELSE None

(* validate_dimension: dimension and re.match(r'^\d+x\d+$', dimension), as  *)
(* a truth value.  '$' also matches just before one trailing newline.       *)
MatchesDimRegex(s) ==
    LET parts == Split(s, "x") IN
    Len(parts) = 2 /\ AllDigits(parts[1]) /\ AllDigits(parts[2])

validate_dimension(dimension) ==
    /\ dimension # None
    /\ dimension # <<>>
    /\ \/ MatchesDimRegex(dimension)
       \/ /\ dimension[Len(dimension)] = "\n"
          /\ MatchesDimRegex(SubSeq(dimension, 1, Len(dimension) - 1))

\* ------------------------------------------------------------ catalog load
(* One row of the feather file as read, and the three column clean-ups    *)
(* applied at import time.                                                 *)
LoadRow(raw) ==
    [Product_Name      |-> Strip(raw.Product_Name),
     Product_Dimension |-> Strip(Lower(raw.Product_Dimension)),
     Product_Type      |-> Strip(Lower(raw.Product_Type)),
     Product_Price     |-> raw.Product_Price]

LoadCatalog(rawRows) == [i \in DOMAIN rawRows |-> LoadRow(rawRows[i])]

\* ------------------------------------------------------ fetch_product_info
(* Series.str.contains(pat, case=False, na=False).  pat is a regular       *)
(* expression; for the patterns used here (letters and blanks only) a      *)
(* case-insensitive regex search is a case-insensitive substring test.     *)
StrContains(value, pat) == Contains(Lower(value), Lower(pat))

(* products_df[mask]: the rows satisfying the mask, in stored order *)
NameFilter(df, name) ==
    SelectSeq(df, LAMBDA r : StrContains(r.Product_Name, name))

NameAndDimensionFilter(df, name, normalized_dimensions) ==
    SelectSeq(df, LAMBDA r :
        /\ StrContains(r.Product_Name, name)
        /\ normalize_dimension(r.Product_Dimension) = normalized_dimensions)

ColumnSet(df) == {df[i].Product_Dimension : i \in DOMAIN df}

(* product_info.iloc[0], and the variant that takes the last row *)
MutLastRow(product_info) == product_info[Len(product_info)]

FirstRow(product_info) == product_info[1]

(* set(products_df[name mask]['Product_Dimension']), lines 87-89, and the  *)
(* variant that forgets the name mask                                      *)
MutAllDimensions(df, name) == ColumnSet(df)

AvailableDimensions(df, name) == ColumnSet(NameFilter(df, name))

(* set(product_info['Product_Dimension']), line 96, and the variant that   *)
(* collects the normalized dimensions                                      *)
MutNormalizedDimensionsFound(product_info) ==
    {normalize_dimension(product_info[i].Product_Dimension) : i \in DOMAIN product_info}

DimensionsFound(product_info) == ColumnSet(product_info)

(* The returned messages, one tag per f-string / literal of the function,  *)
(* with the values the f-string interpolates.                              *)
InvalidDimensionMsg == [msg |-> "InvalidDimension"]
NotFoundMsg == [msg |-> "NotFound"]
NoDimensionsMsg == [msg |-> "NoDimensions"]
IndexErrorExc == [msg |-> "IndexError"]
PricedMsg(row) ==
    [msg |-> "Priced", name |-> row.Product_Name,
     dimension |-> row.Product_Dimension, price |-> row.Product_Price]
NonStandardMsg(dimensions, available) ==
    [msg |-> "NonStandard", dimensions |-> dimensions, available |-> available]
MultipleMsg(product_name, available) ==
    [msg |-> "Multiple", name |-> product_name, available |-> available]
TypeFallbackMsg(row) ==
    [msg |-> "TypeFallback", name |-> row.Product_Name,
     type |-> row.Product_Type, price |-> row.Product_Price]

(* lines 105-115: the type/name token fallback.  split()[1] raises         *)
(* IndexError when the name is a single token.                             *)
TypeFallback(df, normalized_product_name) ==
    LET tokens == SplitWs(normalized_product_name)
        product_type_match ==
            SelectSeq(df, LAMBDA r : StrContains(r.Product_Type, tokens[1]))
    IN IF product_type_match # <<>>
       THEN IF Len(tokens) < 2 THEN IndexErrorExc
            ELSE LET possible_matches ==
                         SelectSeq(product_type_match,
                                   LAMBDA r : StrContains(r.Product_Name, tokens[2]))
                 IN IF possible_matches # <<>>
                    THEN TypeFallbackMsg(FirstRow(possible_matches))
                    ELSE NotFoundMsg
       ELSE NotFoundMsg

(* lines 75-90 *)
WithDimension(df, normalized_product_name, dimensions) ==
    LET normalized_dimensions == normalize_dimension(dimensions) IN
    IF ~validate_dimension(normalized_dimensions) THEN InvalidDimensionMsg
    ELSE LET product_info ==
                 NameAndDimensionFilter(df, normalized_product_name, normalized_dimensions)
         IN IF product_info # <<>>
            THEN PricedMsg(FirstRow(product_info))
            ELSE NonStandardMsg(dimensions, AvailableDimensions(df, normalized_product_name))

(* lines 92-114 *)
WithoutDimension(df, product_name, normalized_product_name) ==
    LET product_info == NameFilter(df, normalized_product_name) IN
    IF product_info # <<>>
    THEN LET dimensions_found == DimensionsFound(product_info) IN
         IF Cardinality(dimensions_found) = 1 THEN PricedMsg(FirstRow(product_info))
         ELSE IF Cardinality(dimensions_found) > 1
              THEN MultipleMsg(product_name, dimensions_found)
              ELSE NoDimensionsMsg
    ELSE TypeFallback(df, normalized_product_name)

fetch_product_info(df, product_name, dimensions) ==
    LET normalized_product_name ==
            IF product_name # None /\ product_name # <<>>
            THEN Strip(product_name) ELSE None
    IN IF normalized_product_name # None /\ normalized_product_name # <<>>
       THEN IF dimensions # None /\ dimensions # <<>>
            THEN WithDimension(df, normalized_product_name, dimensions)
            ELSE WithoutDimension(df, product_name, normalized_product_name)
       ELSE NotFoundMsg

\* ----------------------------------------------- analyze_query_with_gemini
NoContentPartsText ==
    <<"N", "o", " ", "v", "a", "l", "i", "d", " ", "c", "o", "n", "t", "e", "n", "t", " ", "p", "a", "r", "t", "s", " ", "f", "o", "u", "n", "d", " ", "i", "n", " ", "t", "h", "e", " ", "r", "e", "s", "p", "o", "n", "s", "e", ".">>
NoCandidatesText ==
    <<"N", "o", " ", "c", "a", "n", "d", "i", "d", "a", "t", "e", "s", " ", "f", "o", "u", "n", "d", " ", "i", "n", " ", "t", "h", "e", " ", "r", "e", "s", "p", "o", "n", "s", "e", ".">>
ErrorAnalyzingText ==
    <<"E", "r", "r", "o", "r", " ", "a", "n", "a", "l", "y", "z", "i", "n", "g", " ", "q", "u", "e", "r", "y", ".">>

(* gemini is what model.generate_content does on this call: it raises, or  *)
(* answers without candidates, without content parts, or with a text.      *)
analyze_query_with_gemini(gemini) ==
    IF gemini.kind = "raises" THEN ErrorAnalyzingText
    ELSE IF gemini.kind = "no_candidates" THEN NoCandidatesText
    ELSE IF gemini.kind = "no_parts" THEN NoContentPartsText
    ELSE gemini.text

\* ------------------------------------------------- extract_product_details
(* The first index after the run of characters of `set` starting at i. *)
RECURSIVE RunEnd(_, _, _)
RunEnd(s, i, set) ==
    IF i <= Len(s) /\ s[i] \in set THEN RunEnd(s, i + 1, set) ELSE i

DigitSet == {Digits[i] : i \in DOMAIN Digits}

(* word1\s*word2\s*... matched at position i: the first index after the   *)
(* match, or 0.  Every word starts with a letter, so the greedy \s* never  *)
(* has to give characters back.                                            *)
RECURSIVE WordsEnd(_, _, _)
WordsEnd(s, i, words) ==
    IF words = <<>> THEN i
    ELSE LET w == Head(words)
             j == i + Len(w)
         IN IF j - 1 <= Len(s) /\ SubSeq(s, i, j - 1) = w
            THEN IF Tail(words) = <<>> THEN j
                 ELSE WordsEnd(s, RunEnd(s, j, Whitespace), Tail(words))
            ELSE 0

(* the alternatives of the product-name pattern, in the order written *)
NamePatterns ==
    << << <<"p", "o", "s", "t", "e", "l", "j", "i", "n", "a">>,
          <<"m", "o", "y", "s", "a", "n">>,
          <<"s", "a", "t", "i", "n">>,
          <<"c", "l", "o", "r", "a", "s", "a">> >>,
       << <<"m", "a", "d", "r", "a", "c">>, <<"i", "n", "f", "i", "n", "i", "t", "y">> >>,
       << <<"m", "a", "d", "r", "a", "c">>, <<"m", "o", "n", "d", "y">> >>,
       << <<"p", "o", "s", "t", "e", "l", "j", "i", "n", "a">>, <<"c", "l", "o", "r", "a", "s", "a">> >> >>

(* the end of the match of the name pattern at i: the first alternative    *)
(* that matches there, or 0                                                *)
NameEndAt(s, i) ==
    IF \E k \in DOMAIN NamePatterns : WordsEnd(s, i, NamePatterns[k]) > 0
    THEN LET k == CHOOSE k \in DOMAIN NamePatterns :
                      /\ WordsEnd(s, i, NamePatterns[k]) > 0
                      /\ \A m \in 1..(k - 1) : WordsEnd(s, i, NamePatterns[m]) = 0
         IN WordsEnd(s, i, NamePatterns[k])
    ELSE 0

(* \d+x\d+ matched at position i: the first index after the match, or 0 *)
DimensionEndAt(s, i) ==
    LET j == RunEnd(s, i, DigitSet) IN
    IF j > i /\ j <= Len(s) /\ s[j] = "x" /\ RunEnd(s, j + 1, DigitSet) > j + 1
    THEN RunEnd(s, j + 1, DigitSet)
    ELSE 0

(* re.search(...).group(0): the leftmost match, or None *)
SearchName(s) ==
    IF \E i \in DOMAIN s : NameEndAt(s, i) > 0
    THEN LET i == CHOOSE i \in DOMAIN s :
                      NameEndAt(s, i) > 0 /\ \A m \in 1..(i - 1) : NameEndAt(s, m) = 0
         IN SubSeq(s, i, NameEndAt(s, i) - 1)
    ELSE None

SearchDimension(s) ==
    IF \E i \in DOMAIN s : DimensionEndAt(s, i) > 0
    THEN LET i == CHOOSE i \in DOMAIN s :
                      DimensionEndAt(s, i) > 0 /\ \A m \in 1..(i - 1) : DimensionEndAt(s, m) = 0
         IN SubSeq(s, i, DimensionEndAt(s, i) - 1)
    ELSE None

extract_product_details(query) ==
    LET normalized_query == Strip(Lower(query)) IN
    [product_name |-> SearchName(normalized_query),
     dimensions |-> SearchDimension(normalized_query)]

\* ------------------------------------------------------------ handle_query
InformacijeOProizvodu ==
    <<"i", "n", "f", "o", "r", "m", "a", "c", "i", "j", "e", " ", "o", " ", "p", "r", "o", "i", "z", "v", "o", "d", "u">>
ProductInformation ==
    <<"p", "r", "o", "d", "u", "c", "t", " ", "i", "n", "f", "o", "r", "m", "a", "t", "i", "o", "n">>
NotExtractedText ==
    <<"P", "r", "o", "d", "u", "c", "t", " ", "n", "a", "m", "e", " ", "c", "o", "u", "l", "d", " ", "n", "o", "t", " ", "b", "e", " ", "e", "x", "t", "r", "a", "c", "t", "e", "d", ".">>
NotRelatedText ==
    <<"T", "h", "e", " ", "q", "u", "e", "r", "y", " ", "i", "s", " ", "n", "o", "t", " ", "r", "e", "l", "a", "t", "e", "d", " ", "t", "o", " ", "p", "r", "o", "d", "u", "c", "t", " ", "i", "n", "f", "o", "r", "m", "a", "t", "i", "o", "n", ".">>

(* jsonify({"message": ...}): a literal text, or a message of              *)
(* fetch_product_info, bare or behind the prefix "Product Information: ".  *)
(* The tests `"Odabrana dimenzija" in product_info` and `"Postoji više     *)
(* dimenzija" in product_info` are tests of which message it is.           *)
TextReply(text) == [status |-> 200, message |-> [kind |-> "text", text |-> text]]
InfoReply(info, prefixed) ==
    [status |-> 200,
     message |-> [kind |-> "product_info", prefixed |-> prefixed, info |-> info]]
ServerError == [status |-> 500]

(* an exception leaving a view function is Flask's 500 response *)
ReplyOrError(info, bareMsg) ==
    IF info = IndexErrorExc THEN ServerError
    ELSE InfoReply(info, info.msg # bareMsg)

handle_query(df, query, gemini) ==
    LET analysis_result == analyze_query_with_gemini(gemini) IN
    IF \/ Contains(Lower(analysis_result), InformacijeOProizvodu)
       \/ Contains(Lower(analysis_result), ProductInformation)
    THEN LET details == extract_product_details(query)
             product_name == details.product_name
             dimensions == details.dimensions
         IN IF product_name # None /\ product_name # <<>>
            THEN IF dimensions # None /\ dimensions # <<>>
                 THEN LET normalized_user_dimension == normalize_dimension(dimensions) IN
                      IF ~validate_dimension(normalized_user_dimension)
                      THEN InfoReply(InvalidDimensionMsg, FALSE)
                      ELSE ReplyOrError(
                               fetch_product_info(df, product_name, normalized_user_dimension),
                               "NonStandard")
                 ELSE ReplyOrError(fetch_product_info(df, product_name, None), "Multiple")
            ELSE TextReply(NotExtractedText)
    ELSE TextReply(NotRelatedText)

\* ----------------------------------------------------------------- webhook
MismatchText ==
    <<"V", "e", "r", "i", "f", "i", "c", "a", "t", "i", "o", "n", " ", "t", "o", "k", "e", "n", " ", "m", "i", "s", "m", "a", "t", "c", "h">>
OkText == <<"O", "K">>
Subscribe == <<"s", "u", "b", "s", "c", "r", "i", "b", "e">>

(* GET /webhook, lines 148-152.  A view that returns None is a 500. *)
webhook_get(verify_token, mode, token, challenge) ==
    IF mode = Subscribe /\ token = verify_token
    THEN IF challenge = None THEN ServerError
         ELSE [status |-> 200, body |-> challenge]
    ELSE [status |-> 403, body |-> MismatchText]

(* the messaging events of all entries, in the order the two loops visit   *)
(* them                                                                    *)
RECURSIVE Flatten(_)
Flatten(entries) ==
    IF entries = <<>> THEN <<>> ELSE Head(entries) \o Flatten(Tail(entries))

GenerateContentCall(text) == [call |-> "generate_content", query |-> text]
SendMessageCall(recipient_id, message_text) ==
    [call |-> "requests.post", recipient |-> recipient_id, text |-> message_text]

(* generate_response, lines 166-169 *)
generate_response(gemini) == analyze_query_with_gemini(gemini)

(* lines 157-163 on the remaining events.  calls is the log of the         *)
(* collaborator calls made so far, sends the number of send_message calls. *)
(* messaging_event['sender'] raises KeyError without a sender; the         *)
(* failAt-th requests.post (or its .json()) raises.                        *)
RECURSIVE ProcessEvents(_, _, _, _, _)
ProcessEvents(events, calls, sends, gemini, failAt) ==
    IF events = <<>> THEN [calls |-> calls, raised |-> FALSE]
    ELSE LET messaging_event == Head(events) IN
         IF messaging_event.message
         THEN IF messaging_event.sender = None
              THEN [calls |-> calls, raised |-> TRUE]
              ELSE LET response_text == generate_response(gemini)
                       after == calls
                                \o <<GenerateContentCall(messaging_event.text)>>
                                \o <<SendMessageCall(messaging_event.sender, response_text)>>
                   IN IF sends + 1 = failAt
                      THEN [calls |-> after, raised |-> TRUE]
                      ELSE ProcessEvents(Tail(events), after, sends + 1, gemini, failAt)
         ELSE ProcessEvents(Tail(events), calls, sends, gemini, failAt)

(* POST /webhook, lines 153-164.  get_json() gives None when the body is   *)
(* not JSON, and data.get then raises.                                     *)
webhook_post(data, gemini, failAt) ==
    IF ~data.is_json THEN [status |-> 500, calls |-> <<>>]
    ELSE LET done == ProcessEvents(Flatten(data.entry), <<>>, 0, gemini, failAt) IN
         IF done.raised THEN [status |-> 500, calls |-> done.calls]
         ELSE [status |-> 200, body |-> OkText, calls |-> done.calls]

\* ------------------------------------------------------------------ inputs
(* Dimension strings handed to normalize_dimension / validate_dimension:   *)
(* None and every string of at most MaxDimLen characters.                  *)
DimAlphabet == {"0", "1", "2", "x", " ", "-", "a"}
DimStrings == {None} \cup UNION {[1..n -> DimAlphabet] : n \in 0..MaxDimLen}

(* Rows of the feather file before the import-time clean-up.  Price and    *)
(* type go together so that two rows of one name and dimension differ.     *)
RawNames == {<<" ", "A", "b">>, <<"a", " ", "b">>}
RawDimensions == {<<"1", "x", "2">>, <<"2", "X", "1", " ">>, <<"3", "x", "3">>}
RawTypePrice == {<<<<"T">>, 10>>, <<<<"u", " ">>, 20>>}
RawRows ==
    {[Product_Name |-> n, Product_Dimension |-> d,
      Product_Type |-> tp[1], Product_Price |-> tp[2]] :
        n \in RawNames, d \in RawDimensions, tp \in RawTypePrice}
Catalogs == {LoadCatalog(raw) : raw \in UNION {[1..n -> RawRows] : n \in 0..MaxRows}}

(* Arguments of fetch_product_info.  A name is None or a non-blank string  *)
(* without surrounding blanks, as extract_product_details produces it.     *)
FetchNames ==
    {None, <<"a", "b">>, <<"A", "B">>, <<"a", " ", "b">>, <<"a">>, <<"t">>,
     <<"t", " ", "a">>, <<"t", " ", "c">>, <<"c">>, <<"c", " ", "a">>}
FetchDimensions ==
    {None, <<>>, <<"1", "x", "2">>, <<"2", "x", "1">>, <<"3", "x", "3">>,
     <<"3", "x", "1">>, <<"0", "x", "1">>, <<"-", "1", "x", "2">>,
     <<"a", "x", "1">>, <<"1", "x", "2", "x", "3">>, <<"1", "2">>,
     <<"0", "1", "x", "2">>, <<" ", "1", "x", "2">>}

(* Catalogs whose names the extractor's fixed phrase list can produce. *)
QueryRawRows ==
    {[Product_Name |-> <<"M", "a", "d", "r", "a", "c", " ", "I", "n", "f", "i", "n", "i", "t", "y">>,
      Product_Dimension |-> <<"9", "0", "x", "2", "0", "0">>,
      Product_Type |-> <<"M", "a", "d", "r", "a", "c">>, Product_Price |-> 100],
     [Product_Name |-> <<"M", "a", "d", "r", "a", "c", " ", "I", "n", "f", "i", "n", "i", "t", "y">>,
      Product_Dimension |-> <<"1", "6", "0", "x", "2", "0", "0">>,
      Product_Type |-> <<"M", "a", "d", "r", "a", "c">>, Product_Price |-> 150],
     [Product_Name |-> <<"P", "o", "s", "t", "e", "l", "j", "i", "n", "a", " ", "C", "l", "o", "r", "a", "s", "a">>,
      Product_Dimension |-> <<"1", "4", "0", "x", "2", "0", "0">>,
      Product_Type |-> <<"P", "o", "s", "t", "e", "l", "j", "i", "n", "a">>, Product_Price |-> 40]}
QueryCatalogs ==
    {LoadCatalog(raw) : raw \in UNION {[1..n -> QueryRawRows] : n \in 0..MaxRows}}

(* Bodies of POST /query. *)
Queries ==
    {<<"K", "o", "l", "i", "k", "o", " ", "k", "o", "s", "t", "a", " ", "m", "a", "d", "r", "a", "c", " ", "i", "n", "f", "i", "n", "i", "t", "y", " ", "2", "0", "0", "x", "9", "0", "?">>,
     <<"M", "A", "D", "R", "A", "C", " ", " ", "I", "N", "F", "I", "N", "I", "T", "Y">>,
     <<"m", "a", "d", "r", "a", "c", " ", "i", "n", "f", "i", "n", "i", "t", "y", " ", "7", "0", "x", "7", "0">>,
     <<"m", "a", "d", "r", "a", "c", " ", "i", "n", "f", "i", "n", "i", "t", "y", " ", "7", "x">>,
     <<"p", "o", "s", "t", "e", "l", "j", "i", "n", "a", "c", "l", "o", "r", "a", "s", "a">>,
     <<"m", "a", "d", "r", "a", "c", " ", "m", "o", "n", "d", "y", " ", "9", "0", "x", "2", "0", "0">>,
     <<"d", "o", "b", "a", "r", " ", "d", "a", "n">>}

(* What the classifier does on a call. *)
GeminiOutcomes ==
    {[kind |-> "raises"], [kind |-> "no_candidates"], [kind |-> "no_parts"],
     [kind |-> "text",
      text |-> <<"Y", "e", "s", ",", " ", "i", "t", " ", "a", "s", "k", "s", " ", "f", "o", "r", " ", "P", "r", "o", "d", "u", "c", "t", " ", "I", "n", "f", "o", "r", "m", "a", "t", "i", "o", "n", ".">>],
     [kind |-> "text",
      text |-> <<"U", "p", "i", "t", " ", "t", "r", "a", "z", "i", " ", "i", "n", "f", "o", "r", "m", "a", "c", "i", "j", "e", " ", "o", " ", "p", "r", "o", "i", "z", "v", "o", "d", "u", ".">>],
     [kind |-> "text", text |-> <<"N", "o", ".">>]}

(* The environment's VERIFY_TOKEN (os.getenv gives None when it is unset)  *)
(* and the query parameters of GET /webhook (args.get gives None for a     *)
(* missing one).                                                           *)
VerifyTokens == {None, <<"s", "3", "c", "r", "e", "t">>}
Modes == {None, Subscribe, <<"u", "n", "s", "u", "b", "s", "c", "r", "i", "b", "e">>, <<"S", "u", "b", "s", "c", "r", "i", "b", "e">>}
Tokens == {None, <<>>, <<"s", "3", "c", "r", "e", "t">>, <<"g", "u", "e", "s", "s">>}
Challenges == {None, <<>>, <<"c", "1">>, <<"c", "2">>}

(* Payloads of POST /webhook: entries of messaging events.  message is the *)
(* truth value of messaging_event.get('message'). *)
MessagingEvents ==
    {[message |-> FALSE, sender |-> <<"7">>, text |-> None],
     [message |-> TRUE, sender |-> <<"7">>, text |-> <<"h", "i">>],
     [message |-> TRUE, sender |-> <<"8">>, text |-> None],
     [message |-> TRUE, sender |-> None, text |-> <<"y", "o">>]}
Entries == UNION {[1..n -> MessagingEvents] : n \in 0..MaxEvents}
Payloads ==
    {[is_json |-> FALSE, entry |-> <<>>]}
    \cup {[is_json |-> TRUE, entry |-> e] :
              e \in UNION {[1..n -> Entries] : n \in 0..MaxEntries}}

NoRequest == [op |-> "none"]
NoResponse == [value |-> None]

\* ----------------------------------------------------------------- actions
(* The service is stateless between requests: a call is taken when none  *)
(* is in progress, and Return hands the result back.                      *)
Idle == req = NoRequest

Return ==
    /\ ~Idle
    /\ req' = NoRequest
    /\ resp' = NoResponse
    /\ UNCHANGED <<products_df, VERIFY_TOKEN>>

NormalizeDimension(d) ==
    /\ Idle
    /\ req' = [op |-> "normalize_dimension", dimension |-> d]
    /\ resp' = [value |-> normalize_dimension(d)]
    /\ UNCHANGED <<products_df, VERIFY_TOKEN>>

ValidateDimension(d) ==
    /\ Idle
    /\ req' = [op |-> "validate_dimension", dimension |-> d]
    /\ resp' = [value |-> validate_dimension(d)]
    /\ UNCHANGED <<products_df, VERIFY_TOKEN>>

FetchProductInfo(name, dimensions) ==
    /\ Idle
    /\ req' = [op |-> "fetch_product_info", product_name |-> name,
               dimensions |-> dimensions]
    /\ resp' = [value |-> fetch_product_info(products_df, name, dimensions)]
    /\ UNCHANGED <<products_df, VERIFY_TOKEN>>

HandleQuery(query, gemini) ==
    /\ Idle
    /\ req' = [op |-> "handle_query", query |-> query, gemini |-> gemini]
    /\ resp' = handle_query(products_df, query, gemini)
    /\ UNCHANGED <<products_df, VERIFY_TOKEN>>

WebhookGet(mode, token, challenge) ==
    /\ Idle
    /\ req' = [op |-> "webhook_get", mode |-> mode, verify_token |-> token,
               challenge |-> challenge]
    /\ resp' = webhook_get(VERIFY_TOKEN, mode, token, challenge)
    /\ UNCHANGED <<products_df, VERIFY_TOKEN>>

WebhookPost(data, gemini, failAt) ==
    /\ Idle
    /\ req' = [op |-> "webhook_post", data |-> data, gemini |-> gemini,
               failAt |-> failAt]
    /\ resp' = webhook_post(data, gemini, failAt)
    /\ UNCHANGED <<products_df, VERIFY_TOKEN>>

\* --------------------------------------------------------- specifications
(* The two dimension functions on every bounded input. *)
InitNorm ==
    /\ products_df = <<>>
    /\ VERIFY_TOKEN = None
    /\ req = NoRequest
    /\ resp = NoResponse

NextNorm ==
    \/ \E d \in DimStrings : NormalizeDimension(d)
    \/ \E d \in DimStrings : ValidateDimension(d)
    \/ Return

SpecNorm == InitNorm /\ [][NextNorm]_vars

(* The resolver on every bounded catalog. *)
InitFetch ==
    /\ products_df \in Catalogs
    /\ VERIFY_TOKEN = None
    /\ req = NoRequest
    /\ resp = NoResponse

NextFetch ==
    \/ \E name \in FetchNames, dimensions \in FetchDimensions :
           FetchProductInfo(name, dimensions)
    \/ Return

SpecFetch == InitFetch /\ [][NextFetch]_vars

(* POST /query on the catalogs the extractor can address. *)
InitQuery ==
    /\ products_df \in QueryCatalogs
    /\ VERIFY_TOKEN = None
    /\ req = NoRequest
    /\ resp = NoResponse

NextQuery ==
    \/ \E query \in Queries, gemini \in GeminiOutcomes : HandleQuery(query, gemini)
    \/ Return

SpecQuery == InitQuery /\ [][NextQuery]_vars

(* GET and POST /webhook under either environment. *)
InitWebhook ==
    /\ products_df = <<>>
    /\ VERIFY_TOKEN \in VerifyTokens
    /\ req = NoRequest
    /\ resp = NoResponse

NextWebhook ==
    \/ \E mode \in Modes, token \in Tokens, challenge \in Challenges :
           WebhookGet(mode, token, challenge)
    \/ \E data \in Payloads, gemini \in GeminiOutcomes, failAt \in 0..MaxEvents :
           WebhookPost(data, gemini, failAt)
    \/ Return

SpecWebhook == InitWebhook /\ [][NextWebhook]_vars

\* ------------------------------------------------------------ claim terms
(* What the claims call things, stated without the resolver's own filters. *)
DimParts(d) == Split(d, "x")

(* d splits on 'x' into exactly two integer-parseable parts *)
TwoIntegers(d) ==
    /\ d # None
    /\ Len(DimParts(d)) = 2
    /\ IntParses(DimParts(d)[1])
    /\ IntParses(DimParts(d)[2])

(* the min-max normalization of d as a pair of numbers *)
MinMaxPair(d) ==
    <<Min(IntOf(DimParts(d)[1]), IntOf(DimParts(d)[2])),
      Max(IntOf(DimParts(d)[1]), IntOf(DimParts(d)[2]))>>

SameNormalization(d, e) ==
    TwoIntegers(d) /\ TwoIntegers(e) /\ MinMaxPair(d) = MinMaxPair(e)

(* 'BxA' for 'AxB' *)
SwapDimension(d) == DimParts(d)[2] \o <<"x">> \o DimParts(d)[1]

(* digits, 'x', digits *)
SyntacticallyValid(d) ==
    /\ d # None
    /\ Len(DimParts(d)) = 2
    /\ AllDigits(DimParts(d)[1])
    /\ AllDigits(DimParts(d)[2])

(* d denotes two positive integers separated by 'x' *)
TwoPositiveIntegers(d) ==
    TwoIntegers(d) /\ IntOf(DimParts(d)[1]) > 0 /\ IntOf(DimParts(d)[2]) > 0

DimensionSupplied(d) == d # None /\ d # <<>>

(* Product_Name contains the name, ignoring case *)
NameMatches(row, name) == Contains(Lower(row.Product_Name), Lower(name))

NameRows(name) == {i \in DOMAIN products_df : NameMatches(products_df[i], name)}

NameDimensionRows(name, d) ==
    {i \in NameRows(name) : SameNormalization(products_df[i].Product_Dimension, d)}

(* the first element of a non-empty set of row indexes, in catalog order *)
FirstIndex(S) == CHOOSE i \in S : \A j \in S : i <= j

(* the type/name token fallback finds a row *)
FallbackRows(name) ==
    LET tokens == SplitWs(name) IN
    {i \in DOMAIN products_df :
        /\ Len(tokens) >= 2
        /\ Contains(products_df[i].Product_Type, Lower(tokens[1]))
        /\ Contains(Lower(products_df[i].Product_Name), Lower(tokens[2]))}

IsNormalize == req.op = "normalize_dimension"
IsFetch == req.op = "fetch_product_info" /\ req.product_name # None

\* ------------------------------------------------------------------ claims
(* C1: with a syntactically valid dimension 'AxB' and at least one row     *)
(* whose name contains the requested name and whose stored dimension has   *)
(* the same min-max normalization, fetch_product_info returns the priced   *)
(* answer of the first such row in catalog order, and gives the identical  *)
(* answer for 'BxA'.                                                       *)
C1_PricedFirstRowOrderInvariant ==
    (/\ IsFetch
     /\ SyntacticallyValid(req.dimensions)
     /\ NameDimensionRows(req.product_name, req.dimensions) # {})
    => LET first == FirstIndex(NameDimensionRows(req.product_name, req.dimensions)) IN
       /\ resp.value = PricedMsg(products_df[first])
       /\ fetch_product_info(products_df, req.product_name,
                             SwapDimension(req.dimensions)) = resp.value

(* C1's case: two rows both match, they carry different prices, and the    *)
(* dimension is given larger number first.                                 *)
C1_Witness ==
    /\ IsFetch
    /\ SyntacticallyValid(req.dimensions)
    /\ Cardinality(NameDimensionRows(req.product_name, req.dimensions)) = 2
    /\ products_df[1].Product_Price # products_df[2].Product_Price
    /\ IntOf(DimParts(req.dimensions)[1]) > IntOf(DimParts(req.dimensions)[2])
    /\ resp.value.msg = "Priced"

(* C2: with a valid dimension, a name that some row contains, and no      *)
(* name-matching row of that normalized dimension, the answer is the       *)
(* non-standard-dimension outcome listing exactly the stored dimensions of *)
(* the rows matching the name; it is never 'product not found'.            *)
C2_NonStandardListsNameDimensions ==
    (/\ IsFetch
     /\ SyntacticallyValid(req.dimensions)
     /\ NameRows(req.product_name) # {}
     /\ NameDimensionRows(req.product_name, req.dimensions) = {})
    => /\ resp.value.msg = "NonStandard"
       /\ resp.value.available =
              {products_df[i].Product_Dimension : i \in NameRows(req.product_name)}
       /\ resp.value # NotFoundMsg

(* C2's case: the name matches one of two rows, the other row carries a    *)
(* different dimension, and the requested dimension matches neither.       *)
C2_Witness ==
    /\ IsFetch
    /\ SyntacticallyValid(req.dimensions)
    /\ Len(products_df) = 2
    /\ Cardinality(NameRows(req.product_name)) = 1
    /\ products_df[1].Product_Dimension # products_df[2].Product_Dimension
    /\ NameDimensionRows(req.product_name, req.dimensions) = {}
    /\ resp.value.msg = "NonStandard"

(* C4: without a dimension and with at least one row whose name contains   *)
(* the requested name: one distinct stored dimension among those rows      *)
(* gives the priced answer of the first of them; more than one gives the   *)
(* multiple-dimensions outcome listing exactly that set, with no price.    *)
C4_NoDimensionPricedOrMultiple ==
    (/\ IsFetch
     /\ ~DimensionSupplied(req.dimensions)
     /\ NameRows(req.product_name) # {})
    => LET rows == NameRows(req.product_name)
           dims == {products_df[i].Product_Dimension : i \in rows}
       IN /\ Cardinality(dims) = 1
               => resp.value = PricedMsg(products_df[FirstIndex(rows)])
          /\ Cardinality(dims) > 1
               => /\ resp.value.msg = "Multiple"
                  /\ resp.value.available = dims
                  /\ "price" \notin DOMAIN resp.value

(* C4's case: two matching rows whose stored dimensions differ. *)
C4_Witness ==
    /\ IsFetch
    /\ ~DimensionSupplied(req.dimensions)
    /\ Cardinality(NameRows(req.product_name)) = 2
    /\ products_df[1].Product_Dimension # products_df[2].Product_Dimension
    /\ resp.value.msg = "Multiple"

(* C7: normalize_dimension returns '<min>x<max>' when the input splits on  *)
(* 'x' into exactly two integer-parseable parts and the invalid result     *)
(* (None) for every other input; hence the result for 'BxA' is that for    *)
(* 'AxB', and normalizing a valid output returns it unchanged.             *)
C7_NormalizeMinMax ==
    IsNormalize
    => IF TwoIntegers(req.dimension)
       THEN LET mm == MinMaxPair(req.dimension) IN
            /\ resp.value = IntToStr(mm[1]) \o <<"x">> \o IntToStr(mm[2])
            /\ normalize_dimension(SwapDimension(req.dimension)) = resp.value
            /\ normalize_dimension(resp.value) = resp.value
       ELSE resp.value = None

(* C7's case: two parseable parts given larger number first, so the output *)
(* differs from the input.                                                 *)
C7_Witness ==
    /\ IsNormalize
    /\ TwoIntegers(req.dimension)
    /\ IntOf(DimParts(req.dimension)[1]) > IntOf(DimParts(req.dimension)[2])
    /\ resp.value # None
    /\ resp.value # req.dimension

(* C3: a name that matches no row under any strategy gets 'product not    *)
(* found', with or without a valid dimension; the non-standard-dimension   *)
(* outcome occurs only when the name matches at least one row.             *)
(* (The name of fewer than two tokens without a dimension is C9's case     *)
(* and is left to it here.)                                                *)
C3_UnknownNameNotFound ==
    IsFetch
    => /\ (/\ NameRows(req.product_name) = {}
           /\ FallbackRows(req.product_name) = {}
           /\ \/ SyntacticallyValid(req.dimensions)
              \/ /\ ~DimensionSupplied(req.dimensions)
                 /\ Len(SplitWs(req.product_name)) >= 2)
          => resp.value = NotFoundMsg
       /\ resp.value.msg = "NonStandard" => NameRows(req.product_name) # {}

(* C9: without a dimension, a name that no Product_Name contains and that  *)
(* has fewer than two tokens gets 'product not found' on every catalog,    *)
(* without an error.                                                       *)
C9_SingleTokenNotFound ==
    (/\ IsFetch
     /\ ~DimensionSupplied(req.dimensions)
     /\ NameRows(req.product_name) = {}
     /\ Len(SplitWs(req.product_name)) < 2)
    => resp.value = NotFoundMsg

(* C10: a supplied dimension is looked up only if it denotes two positive  *)
(* integers separated by 'x'; every other string gets the invalid-         *)
(* dimension message; and every non-invalid result of normalize_dimension  *)
(* passes validate_dimension.                                              *)
C10_OnlyPositiveDimensionsAccepted ==
    (IsFetch /\ DimensionSupplied(req.dimensions))
    => /\ ~TwoPositiveIntegers(req.dimensions) => resp.value = InvalidDimensionMsg
       /\ normalize_dimension(req.dimensions) # None
            => validate_dimension(normalize_dimension(req.dimensions))

(* C5: whenever the classifier fails during POST /query (it raises, or     *)
(* answers without candidates or content parts), the request completes     *)
(* with status 200 and a message carrying the fixed 'error analyzing       *)
(* query' string.                                                          *)
ClassifierFailed(gemini) == gemini.kind \in {"raises", "no_candidates", "no_parts"}

C5_ClassifierFailureSurfaced ==
    (req.op = "handle_query" /\ ClassifierFailed(req.gemini))
    => /\ resp.status = 200
       /\ resp.message.kind = "text"
       /\ Contains(Lower(resp.message.text),
                   <<"e", "r", "r", "o", "r", " ", "a", "n", "a", "l", "y", "z", "i", "n", "g", " ", "q", "u", "e", "r", "y">>)

(* C6: GET /webhook echoes hub.challenge only if hub.mode is 'subscribe'   *)
(* and the supplied hub.verify_token equals a configured secret; in every  *)
(* other case (wrong or missing token, any other mode) it answers 403 with *)
(* the fixed body and does not echo the challenge.                         *)
TokenVerified ==
    /\ req.mode = Subscribe
    /\ req.verify_token # None
    /\ VERIFY_TOKEN # None
    /\ req.verify_token = VERIFY_TOKEN

C6_ChallengeOnlyWithSecret ==
    req.op = "webhook_get"
    => /\ (resp.status = 200 /\ resp.body = req.challenge) => TokenVerified
       /\ ~TokenVerified => (resp.status = 403 /\ resp.body = MismatchText)

(* C8: for every POST /webhook payload the handler visits the messaging    *)
(* events in payload order; each event carrying a message causes exactly   *)
(* one classifier call on its text followed by exactly one send-message    *)
(* call to its sender with the classifier's response; events without a     *)
(* message cause no call; then the handler returns 200 OK.                 *)
RECURSIVE ExpectedCalls(_, _)
ExpectedCalls(events, response_text) ==
    IF events = <<>> THEN <<>>
    ELSE (IF Head(events).message
          THEN <<[call |-> "generate_content", query |-> Head(events).text],
                 [call |-> "requests.post", recipient |-> Head(events).sender,
                  text |-> response_text]>>
          ELSE <<>>)
         \o ExpectedCalls(Tail(events), response_text)

C8_EveryMessageRelayedThenOk ==
    (req.op = "webhook_post" /\ req.data.is_json)
    => /\ resp.calls = ExpectedCalls(Flatten(req.data.entry),
                                     analyze_query_with_gemini(req.gemini))
       /\ resp.status = 200
       /\ resp.body = OkText
====
